---- MODULE Spec2Model ----
\* logexec: a supervisor that runs one child process, forwards the child's
\* stdout and stderr line by line to two syslog sinks, relays signals to the
\* child and exits with the child's exit status (src/logexec.go).
EXTENDS Integers, Sequences, FiniteSets, TLC

\* ------------------------------------------------------------------ bounds
\* Largest value of the -maxline flag explored by LineSpec.
MaxLine == 4
\* Longest text of a complete physical line explored by LineSpec.
MaxLineLen == 6
\* Reads that return data, of both forwarders together, in Spec.
MaxReads == 1
\* Reads that return data in LineSpec.
LineReads == 4
\* Signals the operating system delivers to the supervisor.
MaxSignals == 1
\* Signals the operating system delivers to the supervisor in SigSpec.
MaxBurst == 2

\* --------------------------------------------------------------- universes
Forwarders == {"stdout", "stderr"}

\* passSigs: the signals registered with signal.Notify.
passSigs == {"HUP", "INT", "QUIT", "TERM"}

\* ------------------------------------------------------------ byte strings
Min(S) == CHOOSE x \in S : \A y \in S : x <= y
Max(S) == CHOOSE x \in S : \A y \in S : y <= x

\* bytes.TrimSpace: the slice without its leading and trailing whitespace.
TrimSpace(s) ==
    LET idx == {i \in 1..Len(s) : s[i] # " "}
    IN  IF idx = {} THEN <<>> ELSE SubSeq(s, Min(idx), Max(idx))

\* The capacity bufio.NewReaderSize gives the reader: the requested size,
\* and never less than bufio's minimum of 16 bytes.
BufSize(m) == IF 2 * m < 16 THEN 16 ELSE 2 * m

\* l[:*maxLogLine-3] panics when the upper index is negative.
CutPanics(m, l) == Len(l) > m /\ m - 3 < 0

\* BoundedLine without the call of bytes.TrimSpace.
BoundedLine_NoTrim(m, line) ==
    IF Len(line) > m
    THEN SubSeq(line, 1, m - 3) \o <<".", ".", ".">>
    ELSE line

\* BoundedLine with the cut one byte too far: l[:*maxLogLine-2].
BoundedLine_CutLate(m, line) ==
    LET l == TrimSpace(line)
    IN  IF Len(l) > m
        THEN SubSeq(l, 1, m - 2) \o <<".", ".", ".">>
        ELSE l

\* The bytes handed to w.Write for one physical line.
BoundedLine(m, line) ==
    LET l == TrimSpace(line)
    IN  IF Len(l) > m
        THEN SubSeq(l, 1, m - 3) \o <<".", ".", ".">>
        ELSE l

\* ------------------------------------------------------------ exit status
\* syscall.WaitStatus.ExitStatus on Linux: the exit code of a process that
\* exited, -1 for one that was ended by a signal.
ExitStatus(ws) == IF ws % 128 = 0 THEN (ws \div 256) % 256 ELSE -1

\* What cmd.Wait can return: nil, an error that is no *exec.ExitError, an
\* ExitError with a wait status, an ExitError whose Sys() is of another type.
WaitErr(kind, ws) == [kind |-> kind, ws |-> ws]

getExitStatus(err) ==
    IF err.kind = "nil" THEN 0
    ELSE IF err.kind # "exit" /\ err.kind # "exitnosys" THEN 1
    ELSE LET estatus == IF err.kind = "exit" THEN err.ws ELSE 0
         IN  ExitStatus(estatus)

\* os.Exit: the process status the parent sees is the low byte of the code.
OsExit(code) == code % 256

\* strings.Contains(err.Error(), sub) over the error texts of the model.
Contains(e, sub) == e = sub

\* Benign that takes logPipe's own end-of-stream error for io.EOF.
Benign_GotEOF(e) ==
    e = "nil" \/ e = "io.EOF" \/ e = "got EOF" \/ Contains(e, "bad file descriptor")

\* Benign without the test for "bad file descriptor".
Benign_NoBadFd(e) == e = "nil" \/ e = "io.EOF"

\* The coordinator's test of a forwarder's outcome (the err != io.EOF
\* conjunct is never false: logPipe replaces io.EOF by its own error).
Benign(e) == e = "nil" \/ e = "io.EOF" \/ Contains(e, "bad file descriptor")

\* -------------------------------------------------------------------- state
VARIABLES
    maxLogLine,     \* the -maxline flag
    ignoreSig,      \* the -ignoresig flag
    prog,           \* "running", or how the supervisor ended
    exitCode,       \* the supervisor's exit code once it has ended
    cmdChanNil,     \* cmdChan == nil
    doneChanNil,    \* doneChan == nil
    estatus,        \* estatus of the cmdChan case
    cerr,           \* err received from logErr
    diag,           \* lines main wrote to stderrLog
    child,          \* "running" or "exited"
    childResult,    \* what the child's termination makes cmd.Wait return
    killed,         \* cmd.Process.Kill() has been called
    relayed,        \* signals passed to cmd.Process.Signal, in order
    wpc,            \* the goroutine around cmd.Wait: "wait", "send", "done"
    waitErr,        \* the value that goroutine sends
    wg,             \* the WaitGroup counter
    doneClosed,     \* close(doneChan) has happened
    sigs,           \* the buffered channel sigs
    delivered,      \* the signals the runtime was handed for sigs, in order
    fpc,            \* per forwarder: "read", "write", "send", "exit", "done"
    lastWasPrefix,  \* per forwarder: logPipe's flag
    raw,            \* per forwarder: the fragment the last ReadLine returned
    out,            \* per forwarder: l, the bytes of the last w.Write
    ferr,           \* per forwarder: the error it sends on logErr
    kinds,          \* per forwarder: what the reader delivered, in order
    sink,           \* per forwarder: the reads whose line went to w.Write
    errRunning      \* per forwarder: a read error that is neither end of
                    \* stream nor a closed descriptor came while the child ran

vars == <<maxLogLine, ignoreSig, prog, exitCode, cmdChanNil, doneChanNil,
          estatus, cerr, diag, child, childResult, killed, relayed, wpc,
          waitErr, wg, doneClosed, sigs, delivered, fpc, lastWasPrefix, raw, out,
          ferr, kinds, sink, errRunning>>

coordVars == <<cmdChanNil, doneChanNil, estatus, cerr, diag>>
childVars == <<child, childResult>>
waitVars  == <<wpc, waitErr>>
sigVars   == <<sigs, delivered>>
fwdVars   == <<fpc, lastWasPrefix, raw, out, ferr, kinds, sink, errRunning>>
confVars  == <<maxLogLine, ignoreSig>>

\* The state when main enters its loop: the child is started, both logPipe
\* goroutines, the cmd.Wait goroutine and the wg.Wait goroutine are running.
StartWith(maxlines, waiter, errs) ==
    /\ maxLogLine \in maxlines
    /\ ignoreSig \in BOOLEAN
    /\ prog = "running"
    /\ exitCode = 0
    /\ cmdChanNil = FALSE
    /\ doneChanNil = FALSE
    /\ estatus = 0
    /\ cerr = "nil"
    /\ diag = <<>>
    /\ child = IF waiter = "wait" THEN "running" ELSE "exited"
    /\ waitErr \in errs
    /\ childResult = waitErr
    /\ killed = FALSE
    /\ relayed = <<>>
    /\ wpc = waiter
    /\ wg = 2
    /\ doneClosed = FALSE
    /\ sigs = <<>>
    /\ delivered = <<>>
    /\ fpc = [f \in Forwarders |-> "read"]
    /\ lastWasPrefix = [f \in Forwarders |-> FALSE]
    /\ raw = [f \in Forwarders |-> <<>>]
    /\ out = [f \in Forwarders |-> <<>>]
    /\ ferr = [f \in Forwarders |-> "nil"]
    /\ kinds = [f \in Forwarders |-> <<>>]
    /\ sink = [f \in Forwarders |-> <<>>]
    /\ errRunning = [f \in Forwarders |-> FALSE]

Start(maxlines) == StartWith(maxlines, "wait", {WaitErr("nil", 0)})

Running == prog = "running"

\* ---------------------------------------------------------------- logPipe
\* What the reader delivered, told from the reader's side: a complete short
\* line, or the first, a middle or the final fragment of a long line.
SrcPrefix(f) ==
    /\ kinds[f] # <<>>
    /\ kinds[f][Len(kinds[f])] \in {"first", "middle"}

Kind(f, isPrefix) ==
    IF isPrefix THEN (IF SrcPrefix(f) THEN "middle" ELSE "first")
    ELSE (IF SrcPrefix(f) THEN "final" ELSE "line")

\* The switch on isPrefix and lastWasPrefix: the new value of the flag.
NextFlag(isPrefix, last) ==
    IF isPrefix /\ ~last THEN TRUE
    ELSE IF ~isPrefix /\ last THEN FALSE
    ELSE last

\* Skips with a continue in the case of the first fragment as well.
Skips_First(isPrefix, last) == isPrefix \/ last

\* The switch on isPrefix and lastWasPrefix: TRUE when the loop continues
\* without reaching the write.
Skips(isPrefix, last) ==
    \/ isPrefix /\ last
    \/ ~isPrefix /\ last

\* One s.ReadLine() that returns data, and the loop body down to w.Write.
\* A cut that panics unwinds logPipe, which runs the deferred wg.Done(), and
\* the runtime then ends the process with exit code 2.
FwdRead(f, line, isPrefix, limit) ==
    /\ Running
    /\ fpc[f] = "read"
    /\ Len(kinds["stdout"]) + Len(kinds["stderr"]) < limit
    /\ isPrefix => Len(line) = BufSize(maxLogLine)
    /\ ~isPrefix => Len(line) < BufSize(maxLogLine)
    /\ kinds' = [kinds EXCEPT ![f] = Append(@, Kind(f, isPrefix))]
    /\ raw' = [raw EXCEPT ![f] = line]
    /\ lastWasPrefix' = [lastWasPrefix EXCEPT ![f] = NextFlag(isPrefix, @)]
    /\ IF Skips(isPrefix, lastWasPrefix[f])
       THEN UNCHANGED <<fpc, out, prog, exitCode, wg>>
       ELSE IF CutPanics(maxLogLine, TrimSpace(line))
            THEN /\ prog' = "panic"
                 /\ exitCode' = 2
                 /\ fpc' = [fpc EXCEPT ![f] = "done"]
                 /\ wg' = wg - 1
                 /\ UNCHANGED out
            ELSE /\ out' = [out EXCEPT ![f] = BoundedLine(maxLogLine, line)]
                 /\ fpc' = [fpc EXCEPT ![f] = "write"]
                 /\ UNCHANGED <<prog, exitCode, wg>>
    /\ UNCHANGED <<ferr, sink, errRunning>>
    /\ UNCHANGED <<confVars, coordVars, childVars, waitVars, sigVars,
                   killed, relayed, doneClosed>>

\* ReadError that passes io.EOF on as it is.
ReadError_Raw(e) == e

\* The error logPipe sends for a failed read.
ReadError(e) == IF e = "io.EOF" THEN "got EOF" ELSE e

\* One s.ReadLine() that fails. A read finds the descriptor closed only
\* after cmd.Wait has returned, which is what closes the pipes.
FwdReadErr(f, e) ==
    /\ Running
    /\ fpc[f] = "read"
    /\ e = "bad file descriptor" => wpc # "wait"
    /\ ferr' = [ferr EXCEPT ![f] = ReadError(e)]
    /\ fpc' = [fpc EXCEPT ![f] = "send"]
    /\ errRunning' = [errRunning EXCEPT
                        ![f] = (e = "input/output error" /\ child = "running")]
    /\ UNCHANGED <<lastWasPrefix, raw, out, kinds, sink>>
    /\ UNCHANGED <<confVars, prog, exitCode, coordVars, childVars, waitVars,
                   sigVars, killed, relayed, wg, doneClosed>>

\* FwdWrite with a sink that puts the new line before the earlier ones.
FwdWrite_Prepend(f, ok) ==
    /\ Running
    /\ fpc[f] = "write"
    /\ sink' = [sink EXCEPT ![f] = <<Len(kinds[f])>> \o @]
    /\ IF ok
       THEN /\ fpc' = [fpc EXCEPT ![f] = "read"]
            /\ UNCHANGED ferr
       ELSE /\ fpc' = [fpc EXCEPT ![f] = "send"]
            /\ ferr' = [ferr EXCEPT ![f] = "write error"]
    /\ UNCHANGED <<lastWasPrefix, raw, out, kinds, errRunning>>
    /\ UNCHANGED <<confVars, prog, exitCode, coordVars, childVars, waitVars,
                   sigVars, killed, relayed, wg, doneClosed>>

\* w.Write(l): the sink takes the line, or the write fails.
FwdWrite(f, ok) ==
    /\ Running
    /\ fpc[f] = "write"
    /\ sink' = [sink EXCEPT ![f] = Append(@, Len(kinds[f]))]
    /\ IF ok
       THEN /\ fpc' = [fpc EXCEPT ![f] = "read"]
            /\ UNCHANGED ferr
       ELSE /\ fpc' = [fpc EXCEPT ![f] = "send"]
            /\ ferr' = [ferr EXCEPT ![f] = "write error"]
    /\ UNCHANGED <<lastWasPrefix, raw, out, kinds, errRunning>>
    /\ UNCHANGED <<confVars, prog, exitCode, coordVars, childVars, waitVars,
                   sigVars, killed, relayed, wg, doneClosed>>

\* The deferred wg.Done() once the send on logErr has been received.
FwdDone(f) ==
    /\ Running
    /\ fpc[f] = "exit"
    /\ fpc' = [fpc EXCEPT ![f] = "done"]
    /\ wg' = wg - 1
    /\ UNCHANGED <<lastWasPrefix, raw, out, ferr, kinds, sink, errRunning>>
    /\ UNCHANGED <<confVars, prog, exitCode, coordVars, childVars, waitVars,
                   sigVars, killed, relayed, doneClosed>>

\* ------------------------------------------------------ helper goroutines
\* WgWait for a counter that started one too high.
WgWait_Late ==
    /\ Running
    /\ wg + 1 = 0
    /\ ~doneClosed
    /\ doneClosed' = TRUE
    /\ UNCHANGED <<confVars, prog, exitCode, coordVars, childVars, waitVars,
                   sigVars, fwdVars, killed, relayed, wg>>

\* WgWait that returns when one forwarder is still running.
WgWait_Early ==
    /\ Running
    /\ wg <= 1
    /\ ~doneClosed
    /\ doneClosed' = TRUE
    /\ UNCHANGED <<confVars, prog, exitCode, coordVars, childVars, waitVars,
                   sigVars, fwdVars, killed, relayed, wg>>

\* wg.Wait() returns and doneChan is closed.
WgWait ==
    /\ Running
    /\ wg = 0
    /\ ~doneClosed
    /\ doneClosed' = TRUE
    /\ UNCHANGED <<confVars, prog, exitCode, coordVars, childVars, waitVars,
                   sigVars, fwdVars, killed, relayed, wg>>

\* A wait status: of a child that exited with code n, of one ended by signal s.
Exited(n) == n * 256
Signaled(s) == s

\* The ways the child ends in Spec: exit code 0, exit code 7, death by
\* SIGKILL.
ChildResults ==
    {WaitErr("nil", 0), WaitErr("exit", Exited(7)), WaitErr("exit", Signaled(9))}

\* The child terminates.
ChildExit(r) ==
    /\ Running
    /\ child = "running"
    /\ child' = "exited"
    /\ childResult' = r
    /\ UNCHANGED <<confVars, prog, exitCode, coordVars, waitVars, sigVars,
                   fwdVars, killed, relayed, wg, doneClosed>>

\* cmd.Wait() returns in its goroutine, which then blocks sending on cmdChan.
WaitReturn ==
    /\ Running
    /\ wpc = "wait"
    /\ child = "exited"
    /\ wpc' = "send"
    /\ waitErr' = childResult
    /\ UNCHANGED <<confVars, prog, exitCode, coordVars, childVars, sigVars,
                   fwdVars, killed, relayed, wg, doneClosed>>

\* make(chan os.Signal, 1)
SigsCap == 1

\* The signals the environment sends in the model, two of passSigs.
SentSigs == {"INT", "TERM"}

\* The runtime delivers a signal: a send on sigs that does not block, so a
\* signal that finds the one-slot buffer full is lost.
SignalArrives(s, limit) ==
    /\ Running
    /\ Len(delivered) < limit
    /\ delivered' = Append(delivered, s)
    /\ sigs' = IF Len(sigs) < SigsCap THEN Append(sigs, s) ELSE sigs
    /\ UNCHANGED <<confVars, prog, exitCode, coordVars, childVars, waitVars,
                   fwdVars, killed, relayed, wg, doneClosed>>

\* ------------------------------------------------------------ coordinator
\* The loop condition of main.
LoopCond == ~(cmdChanNil /\ doneChanNil)

\* main is blocked in its select.
Selecting == Running /\ LoopCond

\* CoordSignal without the test of ignoreSig.
CoordSignal_Relay ==
    /\ Running /\ LoopCond
    /\ sigs # <<>>
    /\ sigs' = Tail(sigs)
    /\ relayed' = Append(relayed, Head(sigs))
    /\ UNCHANGED <<confVars, prog, exitCode, coordVars, childVars, waitVars,
                   delivered, fwdVars, killed, wg, doneClosed>>

\* case sig := <-sigs
CoordSignal ==
    /\ Selecting
    /\ sigs # <<>>
    /\ sigs' = Tail(sigs)
    /\ relayed' = IF ignoreSig THEN relayed ELSE Append(relayed, Head(sigs))
    /\ UNCHANGED <<confVars, prog, exitCode, coordVars, childVars, waitVars,
                   delivered, fwdVars, killed, wg, doneClosed>>

\* case <-doneChan
CoordDone ==
    /\ Selecting
    /\ ~doneChanNil
    /\ doneClosed
    /\ doneChanNil' = TRUE
    /\ UNCHANGED <<confVars, prog, exitCode, cmdChanNil, estatus, cerr, diag,
                   childVars, waitVars, sigVars, fwdVars, killed, relayed, wg,
                   doneClosed>>

\* The lines main writes to stderrLog.
ExitDiag == "non-zero exit status"
ErrDiag == "Error logging command output"

\* case err = <-cmdChan: a nonzero status is reported on stderrLog and
\* os.Exit(estatus) ends the process.
CoordCmd ==
    /\ Selecting
    /\ ~cmdChanNil
    /\ wpc = "send"
    /\ wpc' = "done"
    /\ cmdChanNil' = TRUE
    /\ estatus' = getExitStatus(waitErr)
    /\ IF getExitStatus(waitErr) # 0
       THEN /\ diag' = Append(diag, ExitDiag)
            /\ prog' = "osexit"
            /\ exitCode' = OsExit(getExitStatus(waitErr))
       ELSE UNCHANGED <<diag, prog, exitCode>>
    /\ UNCHANGED <<confVars, doneChanNil, cerr, childVars, waitErr, sigVars,
                   fwdVars, killed, relayed, wg, doneClosed>>

\* CoordLogErr without the call of cmd.Process.Kill().
CoordLogErr_NoKill(f) ==
    /\ Running /\ LoopCond
    /\ fpc[f] = "send"
    /\ fpc' = [fpc EXCEPT ![f] = "exit"]
    /\ cerr' = ferr[f]
    /\ IF Benign(ferr[f])
       THEN UNCHANGED <<diag, prog, exitCode>>
       ELSE /\ diag' = IF Contains(ferr[f], "got EOF")
                       THEN diag
                       ELSE Append(diag, "Error logging command output")
            /\ prog' = "fatal"
            /\ exitCode' = OsExit(1)
    /\ UNCHANGED <<confVars, cmdChanNil, doneChanNil, estatus, childVars,
                   waitVars, sigVars, lastWasPrefix, raw, out, ferr, kinds,
                   sink, errRunning, relayed, wg, doneClosed, killed>>

\* case err = <-logErr: the rendezvous with the forwarder f that is blocked
\* in its send. An error that is not benign kills the child, is reported on
\* stderrLog unless it is the "got EOF" error, and log.Fatalf ends the
\* process with os.Exit(1).
CoordLogErr(f) ==
    /\ Selecting
    /\ fpc[f] = "send"
    /\ fpc' = [fpc EXCEPT ![f] = "exit"]
    /\ cerr' = ferr[f]
    /\ IF Benign(ferr[f])
       THEN UNCHANGED <<killed, diag, prog, exitCode>>
       ELSE /\ killed' = TRUE
            /\ diag' = IF Contains(ferr[f], "got EOF")
                       THEN diag
                       ELSE Append(diag, ErrDiag)
            /\ prog' = "fatal"
            /\ exitCode' = OsExit(1)
    /\ UNCHANGED <<confVars, cmdChanNil, doneChanNil, estatus, childVars,
                   waitVars, sigVars, lastWasPrefix, raw, out, ferr, kinds,
                   sink, errRunning, relayed, wg, doneClosed>>

\* The loop condition is false: main returns and the process exits with 0.
CoordReturn ==
    /\ Running
    /\ ~LoopCond
    /\ prog' = "returned"
    /\ exitCode' = 0
    /\ UNCHANGED <<confVars, coordVars, childVars, waitVars, sigVars, fwdVars,
                   killed, relayed, wg, doneClosed>>

Coordinator ==
    \/ CoordSignal
    \/ CoordDone
    \/ CoordCmd
    \/ \E f \in Forwarders : CoordLogErr(f)
    \/ CoordReturn

\* ------------------------------------------------------------------- Spec
\* The whole program with a small universe of lines.
SpecMaxLines == {2, MaxLine}

Pad(n, c) == [i \in 1..n |-> c]

SpecLines == {<<" ", "a", "b", "a">>}
SpecFragments(m) == {Pad(BufSize(m), "a")}

ReadErrors == {"io.EOF", "bad file descriptor", "input/output error"}

Init == Start(SpecMaxLines)

ReadLine(f) ==
    \/ \E line \in SpecLines : FwdRead(f, line, FALSE, MaxReads)
    \/ \E line \in SpecFragments(maxLogLine) : FwdRead(f, line, TRUE, MaxReads)

Next ==
    \/ \E f \in Forwarders : ReadLine(f)
    \/ \E f \in Forwarders, e \in ReadErrors : FwdReadErr(f, e)
    \/ \E f \in Forwarders, ok \in BOOLEAN : FwdWrite(f, ok)
    \/ \E f \in Forwarders : FwdDone(f)
    \/ WgWait
    \/ \E r \in ChildResults : ChildExit(r)
    \/ WaitReturn
    \/ \E s \in SentSigs : SignalArrives(s, MaxSignals)
    \/ Coordinator

Spec == Init /\ [][Next]_vars

\* --------------------------------------------------------------- LineSpec
\* logPipe alone on the stdout pipe, over every short line and over
\* buffer-filling fragments, for every small value of -maxline.
LineMaxLines == (-1..MaxLine) \cup {10}

\* The line of the documented scenario for -maxline 10.
ExampleLine ==
    <<"0", "1", "2", "3", "4", "5", "6", "7", "8", "9",
      "A", "B", "C", "D", "E", "F">>

\* Text of n bytes with whitespace inside: "a", "ab", "ab ", "ab a", ...
Body(n) == [i \in 1..n |-> IF i % 3 = 1 THEN "a" ELSE IF i % 3 = 2 THEN "b" ELSE " "]

\* Complete lines: whitespace, text of up to MaxLineLen bytes, whitespace;
\* and the example.
Lines ==
    {Pad(i, " ") \o Body(j) \o Pad(k, " ") :
        i \in 0..1, j \in 0..MaxLineLen, k \in 0..1} \cup {ExampleLine}

\* Fragments that fill the reader's buffer: whitespace, text, whitespace.
Fragments(m) ==
    {Pad(i, " ") \o Body(j) \o Pad(BufSize(m) - i - j, " ") :
        i \in 0..1, j \in 0..(BufSize(m) - 1)}

LineInit == Start(LineMaxLines) /\ ~ignoreSig

LineRead ==
    \/ \E line \in Lines : FwdRead("stdout", line, FALSE, LineReads)
    \/ \E line \in Fragments(maxLogLine) :
            FwdRead("stdout", line, TRUE, LineReads)

LineNext ==
    \/ LineRead
    \/ \E ok \in BOOLEAN : FwdWrite("stdout", ok)

LineSpec == LineInit /\ [][LineNext]_vars

\* logPipe for the values of -maxline that leave room for the "...".
CutMaxLines == (3..MaxLine) \cup {10}

CutInit == Start(CutMaxLines) /\ ~ignoreSig

CutSpec == CutInit /\ [][LineNext]_vars

\* ------------------------------------------------------------ ResolveSpec
\* getExitStatus over every value cmd.Wait can return: main with the
\* cmd.Wait goroutine blocked in its send, and the cmdChan case.
WaitOutcomes ==
    {WaitErr("nil", 0), WaitErr("other", 0), WaitErr("exitnosys", 0)}
        \cup {WaitErr("exit", Exited(n)) : n \in 1..255}
        \cup {WaitErr("exit", Signaled(sg)) : sg \in 1..31}

ResolveInit == StartWith({MaxLine}, "send", WaitOutcomes) /\ ~ignoreSig

ResolveNext == CoordCmd

ResolveSpec == ResolveInit /\ [][ResolveNext]_vars

\* ---------------------------------------------------------------- SigSpec
\* Signal handling: bursts of the registered signals against main's loop,
\* with the child ending at any moment; the forwarders stay in their reads.
SigInit == Start({MaxLine})

SigNext ==
    \/ \E s \in passSigs : SignalArrives(s, MaxBurst)
    \/ CoordSignal
    \/ \E r \in ChildResults : ChildExit(r)
    \/ WaitReturn
    \/ CoordCmd

SigSpec == SigInit /\ [][SigNext]_vars

\* --------------------------------------------------------------- FairSpec
\* The Go scheduler runs every goroutine that can run, and select takes
\* every case that stays ready: weak fairness of each step of the program.
\* The child, the reads and the signals are the environment's and get none.
Fairness ==
    /\ WF_vars(CoordSignal)
    /\ WF_vars(CoordDone)
    /\ WF_vars(CoordCmd)
    /\ WF_vars(CoordReturn)
    /\ \A f \in Forwarders : WF_vars(CoordLogErr(f))
    /\ \A f \in Forwarders : WF_vars(FwdDone(f))
    /\ WF_vars(WgWait)
    /\ WF_vars(WaitReturn)

FairSpec == Init /\ [][Next]_vars /\ Fairness

\* The program run with -maxline MaxLine only: no line or fragment of Spec
\* makes the cut panic.
WideInit == Start({MaxLine})

WideFairSpec == WideInit /\ [][Next]_vars /\ Fairness

\* --------------------------------------------------------------- LiveSpec
\* The executions in which, besides, the child exits at some time, every
\* read returns at some time (after MaxReads reads with data, with an
\* error or the end of the stream) and every w.Write returns.
EnvFairness ==
    /\ WF_vars(\E r \in ChildResults : ChildExit(r))
    /\ \A f \in Forwarders :
          WF_vars(ReadLine(f) \/ \E e \in ReadErrors : FwdReadErr(f, e))
    /\ \A f \in Forwarders : WF_vars(\E ok \in BOOLEAN : FwdWrite(f, ok))

LiveSpec == Init /\ [][Next]_vars /\ Fairness /\ EnvFairness

\* ================================================================= claims
Last(q) == q[Len(q)]

\* The line of forwarder f's latest read has been handed to w.Write: raw[f]
\* is what was read and out[f] what was written.
Emitted(f) == sink[f] # <<>> /\ Last(sink[f]) = Len(kinds[f])

Ended == prog # "running"

\* The child exited by itself with code n.
ChildExitedWith(n) ==
    /\ child = "exited"
    /\ childResult = WaitErr("exit", Exited(n))

ChildExitedZero == child = "exited" /\ childResult = WaitErr("nil", 0)

InDiag(text) == \E i \in DOMAIN diag : diag[i] = text

Ellipsis == <<".", ".", ".">>

EndsWithEllipsis(l) == Len(l) >= 3 /\ SubSeq(l, Len(l) - 2, Len(l)) = Ellipsis

\* l is w with whitespace removed at both ends, said without TrimSpace.
IsTrimOf(l, w) ==
    /\ l = <<>> \/ (l[1] # " " /\ l[Len(l)] # " ")
    /\ \E i \in 0..Len(w) :
          /\ i + Len(l) <= Len(w)
          /\ \A j \in 1..Len(w) :
                IF j > i /\ j <= i + Len(l) THEN w[j] = l[j - i] ELSE w[j] = " "

\* C1: whenever the child has exited with a code N in 1..255 and the
\* supervisor has ended, the supervisor's exit code is N and the line with
\* "non-zero exit status" is on the stderr sink.
C1_ExitCodePropagated ==
    \A n \in 1..255 :
        (Ended /\ ChildExitedWith(n)) => (exitCode = n /\ InDiag(ExitDiag))

\* The child has exited with code 0 and both forwarders have ended with the
\* "bad file descriptor" error.
BenignClosure ==
    /\ ChildExitedZero
    /\ \A f \in Forwarders :
          fpc[f] \in {"send", "exit", "done"} /\ ferr[f] = "bad file descriptor"

\* C2: once the child has exited with code 0 and both forwarders have ended
\* with the "bad file descriptor" error, the loop eventually ends and the
\* supervisor exits with code 0, whatever the order of the events.
C2_CleanShutdownExitsZero ==
    BenignClosure ~> (prog = "returned" /\ exitCode = 0)

C2_Witness ==
    /\ BenignClosure
    /\ prog = "returned"
    /\ exitCode = 0
    /\ delivered # <<>>

\* The child wrote one complete line on stdout and nothing on stderr and
\* exited with code 0, and both forwarders have read end of stream.
HelloWorldRun ==
    /\ ChildExitedZero
    /\ kinds["stdout"] = <<"line">>
    /\ kinds["stderr"] = <<>>
    /\ \A f \in Forwarders : ferr[f] = "got EOF"

\* C3: when the supervisor has ended after the child wrote one complete line
\* on stdout and nothing on stderr and exited with code 0, and both
\* forwarders have read end of stream, then one line, the trimmed text, was
\* written to the stdout sink, nothing to the stderr sink, and the exit code
\* is 0.
C3_HelloWorld ==
    (Ended /\ HelloWorldRun) =>
        /\ Len(sink["stdout"]) = 1
        /\ IsTrimOf(out["stdout"], raw["stdout"])
        /\ sink["stderr"] = <<>>
        /\ diag = <<>>
        /\ exitCode = 0

\* A forwarder's read has failed, while the child was running, with an
\* error that is neither "bad file descriptor" nor end of stream.
ReadFailedWhileRunning == \E f \in Forwarders : errRunning[f]

\* C4 as stated: whenever the supervisor has ended after such a failure, the
\* child has been sent a kill and the exit code is nonzero.
C4_Original == (Ended /\ ReadFailedWhileRunning) => (killed /\ exitCode # 0)

\* C4 as amended: after such a failure the supervisor eventually ends, never
\* by returning from main and never with exit code 0; when it ends in the
\* stream-error branch the child has been sent a kill.
C4_StreamErrorIsFatal ==
    ReadFailedWhileRunning ~>
        /\ prog \in {"fatal", "osexit", "panic"}
        /\ exitCode # 0
        /\ prog = "fatal" => killed

C4_Witness ==
    /\ ReadFailedWhileRunning
    /\ prog = "fatal"
    /\ cerr = "input/output error"
    /\ killed
    /\ child = "running"

\* C5: the supervisor has ended by leaving the loop only if the child-wait
\* event and the forwarders-done event have both been serviced; it has ended
\* otherwise only in a fatal branch of the coordinator.
C5_LoopEndsAfterBothEvents ==
    /\ prog = "returned" =>
          /\ wpc = "done" /\ cmdChanNil
          /\ doneClosed /\ doneChanNil
    /\ (Ended /\ prog # "returned") => prog \in {"osexit", "fatal"}

\* C6: no cut fails, and every line handed to the sink is at most
\* maxLogLine bytes long.
C6_EmittedLengthBounded ==
    /\ prog # "panic"
    /\ \A f \in Forwarders : Emitted(f) => Len(out[f]) <= maxLogLine

\* C7: a line shorter than maxLogLine is written with its leading and
\* trailing whitespace removed and is otherwise unchanged.
C7_ShortLineRoundTrip ==
    \A f \in Forwarders :
        (Emitted(f) /\ Len(raw[f]) < maxLogLine) => IsTrimOf(out[f], raw[f])

C7_Witness ==
    /\ Emitted("stdout")
    /\ Len(raw["stdout"]) < maxLogLine
    /\ out["stdout"] # <<>>
    /\ Len(out["stdout"]) < Len(raw["stdout"])

\* C8 as stated: a line longer than maxLogLine is written as exactly
\* maxLogLine bytes that end with "...".
C8_Original ==
    \A f \in Forwarders :
        (Emitted(f) /\ Len(raw[f]) > maxLogLine) =>
            (Len(out[f]) = maxLogLine /\ EndsWithEllipsis(out[f]))

\* C8 as amended: with maxLogLine at least 3, a line whose length after
\* trimming exceeds maxLogLine is written as exactly maxLogLine bytes: the
\* first maxLogLine-3 bytes of the trimmed line and then "..."; with
\* maxLogLine 10 the line "0123456789ABCDEF" is written as "0123456...".
C8_LongTrimmedLineTruncated ==
    /\ maxLogLine >= 3 => prog # "panic"
    /\ \A f \in Forwarders :
        /\ (Emitted(f) /\ Len(TrimSpace(raw[f])) > maxLogLine) =>
              /\ Len(out[f]) = maxLogLine
              /\ EndsWithEllipsis(out[f])
              /\ \A i \in 1..(maxLogLine - 3) : out[f][i] = TrimSpace(raw[f])[i]
        /\ (Emitted(f) /\ maxLogLine = 10 /\ raw[f] = ExampleLine) =>
              out[f] = <<"0", "1", "2", "3", "4", "5", "6">> \o Ellipsis

C8_Witness ==
    /\ Emitted("stdout")
    /\ Last(kinds["stdout"]) = "line"
    /\ Len(TrimSpace(raw["stdout"])) > maxLogLine
    /\ Len(TrimSpace(raw["stdout"])) < Len(raw["stdout"])
    /\ maxLogLine > 3

\* The loop body of forwarder f is through with its i-th read.
Processed(f, i) ==
    \/ i < Len(kinds[f])
    \/ i = Len(kinds[f]) /\ fpc[f] # "write"

\* How often the line of forwarder f's i-th read went to w.Write.
Writes(f, i) == Cardinality({j \in DOMAIN sink[f] : sink[f][j] = i})

\* C9: of a logical line longer than the read buffer, the first fragment is
\* written once, as the bounded line of that fragment, the middle and final
\* fragments are not written, and the line after it is written once.
C9_OneLinePerLongLine ==
    \A f \in Forwarders : \A i \in DOMAIN kinds[f] :
        /\ (Processed(f, i) /\ kinds[f][i] = "first") => Writes(f, i) = 1
        /\ kinds[f][i] \in {"middle", "final"} => Writes(f, i) = 0
        /\ (Processed(f, i) /\ kinds[f][i] = "line" /\ i > 1
               /\ kinds[f][i - 1] = "final") => Writes(f, i) = 1
        /\ (Emitted(f) /\ i = Len(kinds[f]) /\ kinds[f][i] = "first") =>
              out[f] = BoundedLine(maxLogLine, raw[f])

\* The documented statuses of a wait outcome (any status for a child ended
\* by a signal, of which the documentation says nothing).
Documented(err) ==
    IF err.kind = "nil" THEN {0}
    ELSE IF err.kind = "other" THEN {1}
    ELSE IF err.kind = "exitnosys" THEN {1}
    ELSE IF err.ws % 128 = 0 THEN {err.ws \div 256}
    ELSE -1..255

\* C10: the resolved status is the documented one: 0 for nil, 1 for an error
\* that is no exit error, the exit code for an exit error of a child that
\* exited, 1 for an exit error without a wait status.
C10_ResolverMatchesDocumentation ==
    cmdChanNil => estatus \in Documented(waitErr)

\* C11: with signal passthrough enabled, every signal delivered to the
\* supervisor has been passed to the child, as the same signal and in the
\* order of delivery, or is the one signal pending in sigs; none is lost,
\* also when several arrive before the coordinator services the first.
C11_EverySignalForwarded ==
    ~ignoreSig => delivered = relayed \o sigs

\* C12: within one stream the lines reach the sink in the order in which
\* they were read: the reads whose lines were written to a sink are reads
\* that happened, and each was read after the one written before it.
C12_SinkOrderIsReadOrder ==
    \A f \in Forwarders :
        /\ \A i \in DOMAIN sink[f] : sink[f][i] \in DOMAIN kinds[f]
        /\ \A i, j \in DOMAIN sink[f] : i < j => sink[f][i] < sink[f][j]

C12_Witness ==
    /\ Len(sink["stdout"]) >= 3
    /\ Len(kinds["stdout"]) > Len(sink["stdout"])

\* The step is the coordinator's receive of forwarder f's outcome.
Serviced(f) == fpc[f] = "send" /\ fpc'[f] = "exit"

\* C13: the coordinator's servicing of a "bad file descriptor" outcome
\* leaves everything as it was: no kill of the child, nothing written to a
\* sink, the program still running, and the child-wait and forwarders-done
\* channels as they were.
C13_BenignErrorChangesNothing ==
    [][\A f \in Forwarders :
          (Serviced(f) /\ ferr[f] = "bad file descriptor") =>
              /\ killed' = killed
              /\ sink' = sink /\ diag' = diag
              /\ prog' = prog /\ exitCode' = exitCode
              /\ cmdChanNil' = cmdChanNil /\ doneChanNil' = doneChanNil
              /\ wpc' = wpc /\ doneClosed' = doneClosed /\ wg' = wg]_vars

C13_Witness ==
    /\ cerr = "bad file descriptor"
    /\ fpc["stderr"] = "exit"
    /\ fpc["stdout"] = "read"
    /\ prog = "running"
    /\ ~killed
    /\ ~cmdChanNil

\* C14: a forwarder never reports the end of its stream as io.EOF but as
\* the error "got EOF"; when the coordinator services that error it kills
\* the child, writes nothing to stderrLog and ends the program with exit
\* code 1; when it services any other error that is not "bad file
\* descriptor" it kills the child, writes the line "Error logging command
\* output" to stderrLog and ends the program with exit code 1.
C14_StreamErrorsEscalate ==
    [][\A f \in Forwarders :
          /\ (fpc[f] = "read" /\ fpc'[f] = "send") =>
                ferr'[f] \in {"got EOF", "bad file descriptor",
                              "input/output error"}
          /\ (Serviced(f) /\ ferr[f] = "got EOF") =>
                /\ killed' /\ diag' = diag
                /\ prog' = "fatal" /\ exitCode' = 1
          /\ (Serviced(f) /\ ferr[f] \notin {"got EOF", "bad file descriptor"}) =>
                /\ killed' /\ diag' = Append(diag, ErrDiag)
                /\ prog' = "fatal" /\ exitCode' = 1]_vars

C14_Witness ==
    /\ prog = "fatal"
    /\ cerr = "got EOF"
    /\ killed
    /\ diag = <<>>
    /\ exitCode = 1
    /\ child = "running"

\* Forwarder f has left its loop: it is blocked in its send on logErr, or
\* the send has been received, or logPipe has returned.
Leaving(f) == fpc[f] \in {"send", "exit", "done"}

\* C15: a forwarder sends one outcome on logErr in its lifetime: once it
\* has an outcome to send it reads and writes no more and its outcome stays
\* the same, an outcome that was received is not sent again, and logPipe
\* returns, with the wg counter going down by one, only after the
\* coordinator has received the outcome.
C15_OneOutcomePerForwarder ==
    [][/\ \A f \in Forwarders :
            /\ Leaving(f) =>
                  /\ fpc'[f] \in {"send", "exit", "done"}
                  /\ kinds'[f] = kinds[f] /\ sink'[f] = sink[f]
                  /\ ferr'[f] = ferr[f]
            /\ fpc[f] \in {"exit", "done"} => fpc'[f] \in {"exit", "done"}
            /\ fpc'[f] = "exit" => fpc[f] \in {"send", "exit"}
            /\ (fpc'[f] = "done" /\ fpc[f] # "done") => fpc[f] = "exit"
       /\ wg' = 2 - Cardinality({f \in Forwarders : fpc'[f] = "done"})]_vars

\* C16: the coordinator services the forwarders-done event at most once,
\* and only when both forwarders have returned and the wg counter is zero:
\* doneChan is closed only then, the event is serviced only on the closed
\* channel, and a serviced event is never serviced again.
C16_DoneOnceWhenBothExited ==
    [][/\ doneClosed' => (wg' = 0 /\ \A f \in Forwarders : fpc'[f] = "done")
       /\ doneChanNil' # doneChanNil =>
             /\ ~doneChanNil /\ doneChanNil'
             /\ doneClosed /\ wg = 0
       /\ doneChanNil => doneChanNil']_vars

C16_Witness ==
    /\ doneChanNil
    /\ ~cmdChanNil
    /\ prog = "running"
    /\ wg = 0

\* C17: the coordinator's servicing of a signal, the one step that takes a
\* signal out of sigs, leaves the child-wait and forwarders-done channels
\* as they were and does not end the loop or the program; with ignoreSig
\* set no signal is ever passed to the child.
C17_SignalChangesNothingElse ==
    [][/\ Len(sigs') < Len(sigs) =>
             /\ cmdChanNil' = cmdChanNil /\ doneChanNil' = doneChanNil
             /\ wpc' = wpc /\ doneClosed' = doneClosed
             /\ LoopCond'
             /\ prog' = "running" /\ exitCode' = exitCode
             /\ killed' = killed
       /\ ignoreSig => relayed' = <<>>]_vars

C17_Witness ==
    /\ ignoreSig
    /\ delivered # <<>>
    /\ sigs = <<>>
    /\ relayed = <<>>
    /\ prog = "running"

ReadsFirst(f) ==
    /\ Len(kinds'[f]) = Len(kinds[f]) + 1
    /\ Last(kinds'[f]) = "first"

C19_ShutdownCompletes == <>Ended

C19_Witness ==
    /\ prog = "returned"
    /\ cmdChanNil /\ doneChanNil
    /\ \A f \in Forwarders : fpc[f] = "done"
    /\ sink["stdout"] # <<>>
    /\ relayed # <<>>

\* C20: the program has ended with exit code 0 only by returning from main
\* after the child's wait result resolved to status 0 and the outcome of
\* each forwarder was serviced as the benign "bad file descriptor" error;
\* after a forwarder has read the end of its stream the program never ends
\* with exit code 0.
C20_ExitZeroOnlyAfterBenignClosure ==
    /\ (Ended /\ exitCode = 0) =>
          /\ prog = "returned"
          /\ cmdChanNil /\ wpc = "done" /\ estatus = 0
          /\ getExitStatus(waitErr) = 0
          /\ \A f \in Forwarders :
                fpc[f] = "done" /\ ferr[f] = "bad file descriptor"
    /\ (\E f \in Forwarders : ferr[f] = "got EOF") => ~(Ended /\ exitCode = 0)

C20_Witness ==
    /\ Ended
    /\ exitCode = 0
    /\ estatus = 0
    /\ \A f \in Forwarders : ferr[f] = "bad file descriptor"
    /\ sink["stderr"] # <<>>

====
